---------------------------- MODULE Spec2Model ----------------------------
(* Model of the DEFA Power (CloudCharge) integration's eco-mode path:       *)
(*   - CloudChargeEcoModeCoordinator (coordinator.py): get_data, set_data,  *)
(*     _save_changes and the poll _async_update_data, run as asyncio tasks  *)
(*     on one event loop (a step of the model is the code between two       *)
(*     suspension points);                                                  *)
(*   - the entity layer's eco-mode setters (switch.py, number.py), which    *)
(*     read and write the remote document through the API client.           *)
EXTENDS Naturals, Integers, Sequences, FiniteSets, TLC

\* ------------------------------------------------------------------ bounds
\* Number of set_data calls made in one behaviour (one caller per call).
MaxCalls == 3

\* Number of set_data calls made while the server document is also written
\* by the set_eco_mode service.
MaxForeignCalls == 2

\* Number of set_data calls made in a behaviour in which save tasks are
\* cancelled.
MaxCancelCalls == 2

\* Number of set_data calls made in a behaviour whose termination is
\* checked.
MaxLiveCalls == 2

\* --------------------------------------------------------------- documents
\* Python's None and a present value, for nullable fields.
None == <<>>
Some(d) == <<d>>

\* The keys of dayOfWeekMap.  A day's pickup hour is nullable: Some(h), or
\* None for a day with no pickup time.
Weekdays ==
    {"MONDAY", "TUESDAY", "WEDNESDAY", "THURSDAY", "FRIDAY", "SATURDAY",
     "SUNDAY"}

\* A dayOfWeekMap with the pickup hour mon for Monday and none for the other
\* days.
DayMap(mon) == [d \in Weekdays |-> IF d = "MONDAY" THEN mon ELSE None]

\* The eco-mode document as the server holds it after construction.
InitialDoc ==
    [active |-> FALSE, pickupTimeEnabled |-> FALSE, hoursToCharge |-> 1,
     dayOfWeekMap |-> DayMap(Some(0))]

\* The mutator callbacks handed to set_data: each sets one field, two of
\* them the same field to different values (the switch's `active` and two
\* values of the number's `hoursToCharge`).
Mutators == {"active_on", "hours_5", "hours_7"}

\* callback(modified_data): the mutator applied in place to the overlay.
Callback(m, d) ==
    CASE m = "active_on" -> [d EXCEPT !.active = TRUE]
      [] m = "hours_5"   -> [d EXCEPT !.hoursToCharge = 5]
      [] m = "hours_7"   -> [d EXCEPT !.hoursToCharge = 7]

\* The field a mutator sets.
FieldOf(m) ==
    CASE m = "active_on" -> "active"
      [] m \in {"hours_5", "hours_7"} -> "hoursToCharge"

\* copy.deepcopy(self.data): an independent, equal document.
DeepCopy(d) == d

\* The EcoModeConfigurationRequest built from the overlay: its four fields.
BuildRequest(md) ==
    [active |-> md.active, pickupTimeEnabled |-> md.pickupTimeEnabled,
     hoursToCharge |-> md.hoursToCharge, dayOfWeekMap |-> md.dayOfWeekMap]

\* ------------------------------------------------------------------- state
VARIABLES
    remote,               \* the eco-mode document on the server
    data,                 \* coordinator.data: the last confirmed document
    last_update_success,  \* coordinator.last_update_success
    modified_data,        \* _modified_data: the pending overlay, or None
    has_changes,          \* _has_changes
    is_saving,            \* _is_saving
    save_task,            \* _save_task: a task id, or 0 for None
    task,                 \* task id -> position of that _save_changes task
    calls,                \* the set_data calls made so far, in order
    sent,                 \* every whole-document write sent by the coordinator
    ent,                  \* the entity layer's setters (switch, number)
    notified,             \* the listener notifications of the save tasks
    is_charging,          \* operational-data coordinator: is_charging
    update_interval,      \* operational-data coordinator: update_interval (s)
    oppc,                 \* poller -> position of its operational-data poll
    opLog,                \* the operational-data polls made so far
    pollLog,              \* the chargepoint and eco-mode polls made so far
    logged_in,            \* API client: __logged_in
    headers,              \* API client: __headers ({} is None)
    inflight,             \* API client: operations awaiting their response
    clientLog,            \* API client: the operations that have ended
    response,             \* the response handed to __async_check_response
    btn,                  \* start/stop button -> its flags and its position
    pressLog              \* the presses of the start/stop buttons so far

ecoVars == <<remote, data, last_update_success, modified_data, has_changes,
             is_saving, save_task, task, calls, sent, ent, notified>>
opVars == <<is_charging, update_interval, oppc, opLog>>
pollVars == <<pollLog>>
clientVars == <<logged_in, headers, inflight, clientLog, response>>
buttonVars == <<btn, pressLog>>

\* What the eco-mode coordinator and the eco-mode entities never touch.
notEco == <<opVars, pollVars, clientVars, buttonVars>>

vars == <<ecoVars, opVars, pollVars, clientVars, buttonVars>>

Tasks == 1..MaxCalls
DoneStates == {"done_ok", "done_err", "done_cancelled"}

\* asyncio.Task.done()
TaskDone(t) == task[t] \in DoneStates

\* The id create_task gives the next task.
NextTaskId == Cardinality({t \in Tasks : task[t] # "unborn"}) + 1

\* The eco-mode entities that can be set: the two switches, the number
\* entity and the select of one weekday.
Entities == {"switch_active", "switch_pickup", "number_hours", "select_monday"}

\* The entities whose setter first reads the server (set_fn).
SetFnEntities == Entities \ {"select_monday"}

\* The cadences of the operational-data coordinator, in seconds.
IdleInterval == 60
ActiveInterval == 10

\* CloudChargeEcoModeCoordinator.__init__, after the first refresh, and the
\* entities' setters at rest.
EcoInit ==
    /\ remote = InitialDoc
    /\ data = Some(InitialDoc)
    /\ last_update_success = TRUE
    /\ modified_data = None
    /\ has_changes = FALSE
    /\ is_saving = FALSE
    /\ save_task = 0
    /\ task = [t \in Tasks |-> "unborn"]
    /\ calls = <<>>
    /\ sent = <<>>
    /\ ent = [e \in Entities |->
                 [pc |-> "idle", value |-> None, req |-> None]]
    /\ notified = <<>>

\* The start and stop charging buttons of one connector.
Buttons == {"start_charging", "stop_charging"}

\* Who runs a poll of the operational data: the coordinator's timer, the
\* async_refresh() of a call of the start_charging or stop_charging service
\* ("service" stands for all of those calls, each of which is a task of its
\* own), or the async_refresh() of a button's press.
Pollers == {"timer", "service"} \cup Buttons

\* CloudChargeOperationalDataCoordinator.__init__; no poll has run yet.
OpInit ==
    /\ is_charging = FALSE
    /\ update_interval = IdleInterval
    /\ oppc = [w \in Pollers |-> "idle"]
    /\ opLog = <<>>

\* CloudChargeAPIClient.__init__: not logged in, no headers.
ClientInit ==
    /\ logged_in = FALSE
    /\ headers = None
    /\ inflight = {}
    /\ clientLog = <<>>

\* ChargeStartStopButton: the class attributes is_available and
\* is_processing, and the button at rest.
ButtonInit ==
    /\ btn = [b \in Buttons |->
                 [is_available |-> FALSE, is_processing |-> FALSE,
                  pc |-> "idle", press |-> 0]]
    /\ pressLog = <<>>

Init ==
    /\ EcoInit
    /\ OpInit
    /\ pollLog = <<>>
    /\ ClientInit
    /\ response = None
    /\ ButtonInit

\* ------------------------------------------------ eco-mode coordinator
\* get_data(): the overlay if there is one, else the last confirmed document.
GetData_OnlyConfirmed == data
GetData == IF modified_data # None THEN modified_data ELSE data

\* set_data: the document the mutator is applied to.
OverlaySource_CloneAgain == DeepCopy(data[1])
OverlaySource ==
    IF modified_data # None THEN modified_data[1] ELSE DeepCopy(data[1])

\* set_data: whether a new save task must be created.
NeedNewTask_Always == TRUE
NeedNewTask == save_task = 0 \/ TaskDone(save_task)

\* The overlay generation a new call edits: a new one when there is no
\* overlay, else the one the previous call edited.
CurrentGen ==
    IF calls = <<>> THEN 0 ELSE calls[Len(calls)].gen
CurrentBase ==
    IF modified_data = None \/ calls = <<>> THEN data[1]
    ELSE calls[Len(calls)].base

\* set_data: self.data after callback(modified_data) has run.  The overlay
\* is a deep copy, so the mutator does not reach self.data; it would if the
\* overlay were self.data itself.
DataAfterCallback_Shared(m) ==
    IF modified_data = None THEN Some(Callback(m, data[1])) ELSE data
DataAfterCallback(m) == data

\* set_data(callback), up to its await of the save task.
SetData(m) ==
    /\ Len(calls) < MaxCalls
    /\ LET create == NeedNewTask
           t == IF create THEN NextTaskId ELSE save_task
       IN  /\ t \in Tasks
           /\ modified_data' = Some(Callback(m, OverlaySource))
           /\ has_changes' = TRUE
           /\ save_task' = t
           /\ task' = IF create THEN [task EXCEPT ![t] = "created"] ELSE task
           /\ calls' = Append(calls,
                  [m |-> m, task |-> t, pc |-> "awaiting",
                   at |-> IF create THEN "new" ELSE task[t],
                   gen |-> IF modified_data = None THEN CurrentGen + 1
                           ELSE CurrentGen,
                   base |-> CurrentBase])
    /\ data' = DataAfterCallback(m)
    /\ UNCHANGED notEco
    /\ UNCHANGED <<remote, last_update_success, is_saving, sent, ent,
                   notified>>

\* What `await self._save_task` gives a caller once task t has ended: it
\* returns, raises the task's exception, or raises CancelledError.
AwaitResult(t) ==
    CASE task[t] = "done_ok" -> "returned_ok"
      [] task[t] = "done_err" -> "returned_err"
      [] task[t] = "done_cancelled" -> "cancelled"

\* The calls suspended at `await self._save_task` whose task has ended and
\* that have not run since.
Woken ==
    {c \in DOMAIN calls : calls[c].pc = "awaiting" /\ TaskDone(calls[c].task)}

\* set_data resumes from `await self._save_task`.  The step that ends a task
\* only schedules its callers' wake-ups: each caller runs in a later turn of
\* the event loop, after the finally block, in the order the callers began
\* to wait, and other steps (a new set_data call among them) may come
\* before it.
Return(c) ==
    /\ c \in Woken
    /\ \A k \in Woken : c <= k
    /\ calls' = [calls EXCEPT ![c].pc = AwaitResult(calls[c].task)]
    /\ UNCHANGED <<remote, data, last_update_success, modified_data,
                   has_changes, is_saving, save_task, task, sent, ent,
                   notified>>
    /\ UNCHANGED notEco

\* _save_changes: _has_changes after the loop body has taken its snapshot.
HasChangesAfterSnapshot_Kept == has_changes
HasChangesAfterSnapshot == FALSE

\* _save_changes: the write request the loop body sends.
NewWrite(t) ==
    [task |-> t, doc |-> BuildRequest(modified_data[1]),
     upto |-> Len(calls), status |-> "inflight", repolled |-> FALSE]

\* The writes sent so far, the last one of task t marked as followed by a
\* re-poll.
Repolled(t) ==
    LET last == CHOOSE i \in DOMAIN sent :
                    sent[i].task = t /\ \A j \in DOMAIN sent : j <= i
    IN  [sent EXCEPT ![last].repolled = TRUE]

\* The index in sent of the write task t is awaiting.
InFlightOf(t) ==
    CHOOSE i \in DOMAIN sent : sent[i].task = t /\ sent[i].status = "inflight"

\* _save_changes: the overlay after a failed write.
OverlayAfterFailure_Kept == modified_data
OverlayAfterFailure == None

\* _save_changes: the overlay after the loop has exited cleanly.
OverlayAfterCleanExit_Kept == modified_data
OverlayAfterCleanExit == None

\* self.async_update_listeners() on the clean exit of task t: what a
\* listener finds when it is called -- whether the overlay is gone and
\* whether get_data() is the last confirmed document.
NotifiedAfterCleanExit(t) ==
    Append(notified, [task |-> t, overlay_cleared |-> modified_data' = None,
                      saw_confirmed |-> GetData' = data'])

\* The notifications after a failed write: the except clause and the
\* finally block call no listener.
NotifiedAfterFailure_Announced(t) == NotifiedAfterCleanExit(t)
NotifiedAfterFailure(t) == notified

\* _save_changes: the outer loop's condition after the re-poll.
LoopAgainAfterRepoll_Never == FALSE
LoopAgainAfterRepoll == has_changes

\* _save_changes: the inner loop's condition after a successful write.
LoopAgainAfterWrite_Never == FALSE
LoopAgainAfterWrite == has_changes

\* _save_changes from its start to its first await (or its end).  The event
\* loop runs what is ready in the order it was scheduled: the wake-ups a task
\* scheduled when it ended come before the first turn of a task created
\* after that.
TaskStart(t) ==
    /\ task[t] = "created"
    /\ Woken = {}
    /\ UNCHANGED <<remote, data, last_update_success, ent>>
    /\ IF is_saving
       THEN /\ task' = [task EXCEPT ![t] = "done_ok"]
            /\ UNCHANGED <<modified_data, has_changes, is_saving, save_task,
                           calls, sent, notified>>
       ELSE IF has_changes
       THEN /\ Len(sent) <= MaxCalls
            /\ is_saving' = TRUE
            /\ has_changes' = HasChangesAfterSnapshot
            /\ sent' = Append(sent, NewWrite(t))
            /\ task' = [task EXCEPT ![t] = "writing"]
            /\ UNCHANGED <<modified_data, save_task, calls, notified>>
       ELSE /\ modified_data' = OverlayAfterCleanExit
            /\ notified' = NotifiedAfterCleanExit(t)
            /\ is_saving' = FALSE
            /\ save_task' = 0
            /\ task' = [task EXCEPT ![t] = "done_ok"]
            /\ UNCHANGED <<has_changes, calls, sent>>
    /\ UNCHANGED notEco

\* The write succeeds: the server stores the document; the inner loop sends
\* the next write at once if an edit arrived, else the re-poll starts.
WriteOk(t) ==
    /\ task[t] = "writing"
    /\ LET i == InFlightOf(t)
           acked == [sent EXCEPT ![i].status = "ok"]
       IN  /\ remote' = sent[i].doc
           /\ IF LoopAgainAfterWrite
              THEN /\ Len(sent) <= MaxCalls
                   /\ has_changes' = HasChangesAfterSnapshot
                   /\ sent' = Append(acked, NewWrite(t))
                   /\ UNCHANGED task
              ELSE /\ sent' = acked
                   /\ task' = [task EXCEPT ![t] = "polling"]
                   /\ UNCHANGED has_changes
    /\ UNCHANGED notEco
    /\ UNCHANGED <<data, last_update_success, modified_data, is_saving,
                   save_task, calls, ent, notified>>

\* The write fails (the server rejects it and stores nothing): the overlay is
\* dropped, the finally block runs, the task ends by raising.  Its callers
\* stay suspended until Return.
WriteFail(t) ==
    /\ task[t] = "writing"
    /\ LET i == InFlightOf(t)
       IN  sent' = [sent EXCEPT ![i].status = "err"]
    /\ modified_data' = OverlayAfterFailure
    /\ is_saving' = FALSE
    /\ save_task' = 0
    /\ task' = [task EXCEPT ![t] = "done_err"]
    /\ UNCHANGED <<remote, data, last_update_success, has_changes, calls,
                   ent>>
    /\ notified' = NotifiedAfterFailure(t)
    /\ UNCHANGED notEco

\* The re-poll (async_refresh) ends, with the fetched document or with a
\* failure that async_refresh records and does not raise; then the outer loop
\* is re-checked: another write, or the clean exit and the finally block.
Repoll(t, ok) ==
    /\ task[t] = "polling"
    /\ data' = IF ok THEN Some(remote) ELSE data
    /\ last_update_success' = ok
    /\ IF LoopAgainAfterRepoll
       THEN /\ Len(sent) <= MaxCalls
            /\ has_changes' = HasChangesAfterSnapshot
            /\ sent' = Append(Repolled(t), NewWrite(t))
            /\ task' = [task EXCEPT ![t] = "writing"]
            /\ UNCHANGED <<modified_data, is_saving, save_task, calls,
                           notified>>
       ELSE /\ modified_data' = OverlayAfterCleanExit
            /\ notified' = NotifiedAfterCleanExit(t)
            /\ is_saving' = FALSE
            /\ save_task' = 0
            /\ task' = [task EXCEPT ![t] = "done_ok"]
            /\ sent' = Repolled(t)
            /\ UNCHANGED <<has_changes, calls>>
    /\ UNCHANGED notEco
    /\ UNCHANGED <<remote, ent>>

\* The save task is cancelled (its caller, suspended at `await
\* self._save_task`, was cancelled, or the event loop is shutting the task
\* down).  Every call awaiting the task gets CancelledError when it runs
\* again (Return).
\* While the task awaits a write or the re-poll, CancelledError is raised at
\* the await.  It is a BaseException, so the `except Exception` clause does
\* not run and the overlay stays; only the finally block runs.  A cancelled
\* write may or may not have reached the server; a cancelled re-poll stores
\* nothing.
\* While the task is created and has not run yet, the body of _save_changes
\* never runs: neither the try nor the finally block does, so _save_task
\* still refers to the (now done) task and nothing else changes.  Such a
\* task ends at its first turn, where CancelledError is thrown into it, so
\* like TaskStart the step comes after the wake-ups scheduled before it.
OverlayAfterCancel == modified_data

Cancel(t, stored) ==
    /\ task[t] \in {"created", "writing", "polling"}
    /\ IF task[t] = "writing"
       THEN LET i == InFlightOf(t)
            IN  /\ sent' = [sent EXCEPT ![i].status = "cancelled"]
                /\ remote' = IF stored THEN sent[i].doc ELSE remote
       ELSE /\ ~stored
            /\ UNCHANGED <<sent, remote>>
    /\ modified_data' = OverlayAfterCancel
    /\ IF task[t] = "created"
       THEN /\ Woken = {}
            /\ UNCHANGED <<is_saving, save_task>>
       ELSE /\ is_saving' = FALSE
            /\ save_task' = 0
    /\ task' = [task EXCEPT ![t] = "done_cancelled"]
    /\ UNCHANGED <<data, last_update_success, has_changes, calls, ent,
                   notified>>
    /\ UNCHANGED notEco

\* A caller is cancelled after its save task has ended and before it has run
\* again: whatever the task's outcome, its set_data call ends with
\* CancelledError.  The coordinator is not touched.
CancelCall(c) ==
    /\ c \in Woken
    /\ calls' = [calls EXCEPT ![c].pc = "cancelled"]
    /\ UNCHANGED <<remote, data, last_update_success, modified_data,
                   has_changes, is_saving, save_task, task, sent, ent,
                   notified>>
    /\ UNCHANGED notEco

\* A periodic poll of the eco-mode coordinator (_async_update_data) ends:
\* with the fetched document, or with a failure the framework records.
Poll(ok) ==
    /\ data' = IF ok THEN Some(remote) ELSE data
    /\ last_update_success' = ok
    /\ UNCHANGED notEco
    /\ UNCHANGED <<remote, modified_data, has_changes, is_saving, save_task,
                   task, calls, sent, ent, notified>>

\* The set_eco_mode service calls made: call.data, pickup_time_mon being
\* optional (None when it is not given); the other days are never given.
ServiceCalls ==
    {[active |-> FALSE, hours_to_charge |-> 1, pickup_time_enabled |-> TRUE,
      pickup_time_mon |-> Some(0)],
     [active |-> TRUE, hours_to_charge |-> 5, pickup_time_enabled |-> TRUE,
      pickup_time_mon |-> None]}

\* handle_set_eco_mode: the configuration built from the call alone.
ServiceConfig(call) ==
    [active |-> call.active, hoursToCharge |-> call.hours_to_charge,
     pickupTimeEnabled |-> call.pickup_time_enabled,
     dayOfWeekMap |-> DayMap(call.pickup_time_mon)]

\* handle_set_eco_mode: the service writes its whole configuration to the
\* server, without reading the server and without telling the coordinator.
HandleSetEcoMode(call) ==
    /\ remote' = ServiceConfig(call)
    /\ UNCHANGED notEco
    /\ UNCHANGED <<data, last_update_success, modified_data, has_changes,
                   is_saving, save_task, task, calls, sent, ent, notified>>

\* --------------------------------------------------------- entity layer
\* set_eco_mode_active: the request built from the fetched configuration.
SetEcoModeActiveRequest(cfg, active) ==
    [active |-> active, hoursToCharge |-> cfg.hoursToCharge,
     pickupTimeEnabled |-> cfg.pickupTimeEnabled,
     dayOfWeekMap |-> cfg.dayOfWeekMap]

\* set_hours_to_charge: the request built from the fetched configuration.
SetHoursToChargeRequest(cfg, hours) ==
    [active |-> cfg.active, hoursToCharge |-> hours,
     pickupTimeEnabled |-> cfg.pickupTimeEnabled,
     dayOfWeekMap |-> cfg.dayOfWeekMap]

\* set_pickup_time_enabled: the request built from the fetched
\* configuration.
SetPickupTimeEnabledRequest(cfg, enabled) ==
    [active |-> cfg.active, hoursToCharge |-> cfg.hoursToCharge,
     pickupTimeEnabled |-> enabled,
     dayOfWeekMap |-> cfg.dayOfWeekMap]

\* The values a setter is called with: async_turn_on and async_turn_off of
\* a switch (True, False), async_set_native_value of the number entity, and
\* the options given to async_select_option.
EntityValues(e) ==
    IF e \in {"switch_active", "switch_pickup"} THEN BOOLEAN
    ELSE IF e = "number_hours" THEN {5}
    ELSE {"3", "disabled"}

\* entity_description.set_fn(connector_id, client, v): the request it builds
\* from the configuration cfg it fetched.
SetFn(e, cfg, v) ==
    IF e = "switch_active" THEN SetEcoModeActiveRequest(cfg, v)
    ELSE IF e = "switch_pickup" THEN SetPickupTimeEnabledRequest(cfg, v)
    ELSE SetHoursToChargeRequest(cfg, v)

\* async_select_option: the pickup hour an option stands for.
OptionValue(option) ==
    IF option = "disabled" THEN None ELSE Some(3)

\* async_select_option: the request built from coordinator.data, with
\* Monday's entry replaced.
SelectOptionRequest(current_data, option) ==
    [active |-> current_data.active,
     hoursToCharge |-> current_data.hoursToCharge,
     pickupTimeEnabled |-> current_data.pickupTimeEnabled,
     dayOfWeekMap |->
         [current_data.dayOfWeekMap EXCEPT !["MONDAY"] = OptionValue(option)]]

\* async_turn_on / async_turn_off / async_set_native_value start with
\* value v: set_fn sends its GET.
EntityBegin(e, v) ==
    /\ e \in SetFnEntities
    /\ ent[e].pc = "idle"
    /\ ent' = [ent EXCEPT ![e].pc = "getting", ![e].value = Some(v)]
    /\ UNCHANGED notEco
    /\ UNCHANGED <<remote, data, last_update_success, modified_data,
                   has_changes, is_saving, save_task, task, calls, sent,
                   notified>>

\* async_select_option(option) of the Monday select: no GET; the request is
\* built from coordinator.data (subscripting None raises TypeError before
\* any request) and the PUT is sent.
SelectBegin(option) ==
    /\ ent["select_monday"].pc = "idle"
    /\ ent' = [ent EXCEPT !["select_monday"] =
                  IF data = None
                  THEN [pc |-> "failed", value |-> Some(option), req |-> None]
                  ELSE [pc |-> "putting", value |-> Some(option),
                        req |-> Some(SelectOptionRequest(data[1], option))]]
    /\ UNCHANGED notEco
    /\ UNCHANGED <<remote, data, last_update_success, modified_data,
                   has_changes, is_saving, save_task, task, calls, sent,
                   notified>>

\* The GET ends: on success set_fn builds its request and sends the PUT.
EntityGetEnd(e, ok) ==
    /\ ent[e].pc = "getting"
    /\ ent' = IF ok
              THEN [ent EXCEPT ![e].pc = "putting",
                               ![e].req =
                                   Some(SetFn(e, remote, ent[e].value[1]))]
              ELSE [ent EXCEPT ![e].pc = "failed"]
    /\ UNCHANGED notEco
    /\ UNCHANGED <<remote, data, last_update_success, modified_data,
                   has_changes, is_saving, save_task, task, calls, sent,
                   notified>>

\* The PUT ends: on success the server stores the document and the entity
\* asks the coordinator for a refresh.
EntityPutEnd(e, ok) ==
    /\ ent[e].pc = "putting"
    /\ remote' = IF ok THEN ent[e].req[1] ELSE remote
    /\ ent' = [ent EXCEPT ![e].pc = IF ok THEN "refreshing" ELSE "failed"]
    /\ UNCHANGED notEco
    /\ UNCHANGED <<data, last_update_success, modified_data, has_changes,
                   is_saving, save_task, task, calls, sent, notified>>

\* coordinator.async_request_refresh() ends (it never raises).
EntityRefreshEnd(e, ok) ==
    /\ ent[e].pc = "refreshing"
    /\ data' = IF ok THEN Some(remote) ELSE data
    /\ last_update_success' = ok
    /\ ent' = [ent EXCEPT ![e].pc = "done"]
    /\ UNCHANGED notEco
    /\ UNCHANGED <<remote, modified_data, has_changes, is_saving, save_task,
                   task, calls, sent, notified>>

\* entity_description.value_fn of the eco-mode switch and number entities.
ValueFn(e, d) ==
    IF e = "switch_active" THEN d.active
    ELSE IF e = "switch_pickup" THEN d.pickupTimeEnabled
    ELSE d.hoursToCharge

\* EcoModeSwitchEntity._set_state / EcoModeNumberEntity._set_state: the state
\* the entity holds after it, state_val being the state it held before.
SetState(e, state_val) ==
    IF data = None THEN state_val ELSE ValueFn(e, data[1])

\* EcoModeWeekDayScheduleSelect._set_state: the option that stands for
\* Monday's entry of document d -- the hour as a string, or "disabled" when
\* the day has no entry or its entry is None.
MappedState(d) ==
    IF "MONDAY" \in DOMAIN d.dayOfWeekMap /\ d.dayOfWeekMap.MONDAY # None
    THEN ToString(d.dayOfWeekMap.MONDAY[1])
    ELSE "disabled"

\* EcoModeWeekDayScheduleSelect._set_state for the Monday select: the state
\* the entity holds after it, state_val being the state it held before.
SelectSetState(state_val) ==
    IF data = None THEN state_val ELSE MappedState(data[1])

\* The steps of the save task, of its callers' return and of the periodic
\* poll.
TaskNext ==
    \/ \E t \in Tasks : TaskStart(t)
    \/ \E c \in 1..MaxCalls : Return(c)
    \/ \E t \in Tasks : WriteOk(t)
    \/ \E t \in Tasks : WriteFail(t)
    \/ \E t \in Tasks, ok \in BOOLEAN : Repoll(t, ok)
    \/ \E ok \in BOOLEAN : Poll(ok)

\* The coordinator with its callers; the server document changes by the
\* coordinator's writes only.
Next ==
    \/ \E m \in Mutators : SetData(m)
    \/ TaskNext

Spec == Init /\ [][Next]_vars

\* The entity layer's setters running against the server, with the periodic
\* poll of the coordinator they refresh.
EntityNext ==
    \/ \E e \in SetFnEntities : \E v \in EntityValues(e) : EntityBegin(e, v)
    \/ \E option \in EntityValues("select_monday") : SelectBegin(option)
    \/ \E e \in Entities, ok \in BOOLEAN : EntityGetEnd(e, ok)
    \/ \E e \in Entities, ok \in BOOLEAN : EntityPutEnd(e, ok)
    \/ \E e \in Entities, ok \in BOOLEAN : EntityRefreshEnd(e, ok)
    \/ \E ok \in BOOLEAN : Poll(ok)

EntitySpec == Init /\ [][EntityNext]_vars

\* The coordinator with its callers while the set_eco_mode service writes
\* the server document as well.
ForeignNext ==
    \/ Len(calls) < MaxForeignCalls /\ \E m \in Mutators : SetData(m)
    \/ TaskNext
    \/ \E call \in ServiceCalls : HandleSetEcoMode(call)

ForeignSpec == Init /\ [][ForeignNext]_vars

\* The coordinator with its callers while save tasks may be cancelled.
CancelNext ==
    \/ Len(calls) < MaxCancelCalls /\ \E m \in Mutators : SetData(m)
    \/ TaskNext
    \/ \E t \in Tasks, stored \in BOOLEAN : Cancel(t, stored)
    \/ \E c \in 1..MaxCalls : CancelCall(c)

CancelSpec == Init /\ [][CancelNext]_vars

\* The coordinator with finitely many set_data calls, whose callers and save
\* tasks may be cancelled, on an event loop that runs every task it was
\* given and a network whose every call completes:
\* a created save task is started, a write in flight ends with success or
\* with an error, a re-poll in flight ends, a caller whose task has ended
\* runs again.
LiveNext ==
    \/ Len(calls) < MaxLiveCalls /\ \E m \in Mutators : SetData(m)
    \/ TaskNext
    \/ \E t \in Tasks, stored \in BOOLEAN : Cancel(t, stored)
    \/ \E c \in 1..MaxCalls : CancelCall(c)

LiveFairness ==
    /\ \A t \in Tasks :
           /\ WF_vars(TaskStart(t))
           /\ WF_vars(WriteOk(t) \/ WriteFail(t))
           /\ WF_vars(\E ok \in BOOLEAN : Repoll(t, ok))
    /\ \A c \in 1..MaxCalls : WF_vars(Return(c))

LiveSpec == Init /\ [][LiveNext]_vars /\ LiveFairness

\* ------------------------------------- operational-data coordinator
\* Number of operational-data polls made in one behaviour.
MaxPolls == 4

\* What the operational-data coordinator and its listeners, the start and
\* stop buttons, never touch.
notOp == <<ecoVars, pollVars, clientVars>>

\* The exceptions a fetch through the API client can raise: the subclasses
\* of CloudChargeAPIError, and a connection error that is none of them.
APIErrors ==
    {"CloudChargeAuthError", "CloudChargeRequestError",
     "CloudChargeBadRequestError", "CloudChargeForbiddenError",
     "CloudChargeNotLoggedInError"}
FetchErrors == APIErrors \cup {"ClientError"}

\* The except clauses of _async_update_data, in their order: what the poll
\* raises when its fetch raised err.
UpdateDataRaises_AllTransient(err) ==
    IF err \in APIErrors THEN "UpdateFailed" ELSE err
UpdateDataRaises(err) ==
    IF err = "CloudChargeAuthError" THEN "ConfigEntryAuthFailed"
    ELSE IF err \in APIErrors THEN "UpdateFailed"
    ELSE err

\* The operational-data documents a fetch returns: with a charging state
\* (possibly the empty string), with an ocpp section that has none, and with
\* no ocpp section.
ChargingStates == {"EVConnected", "Charging", "SuspendedEV", ""}
OperationalDocs ==
    {[ocpp |-> [chargingState |-> s]] : s \in ChargingStates}
        \cup {[ocpp |-> [status |-> "Available"]], [power |-> 0]}

\* data.get("ocpp", {}).get("chargingState")
ChargingStateOf(d) ==
    IF "ocpp" \in DOMAIN d /\ "chargingState" \in DOMAIN d["ocpp"]
    THEN Some(d["ocpp"]["chargingState"])
    ELSE None

\* `if charging_state:` -- neither None nor the empty string.
Truthy_Any(cs) == TRUE
Truthy(cs) == cs # None /\ cs # Some("")

\* The two branches of the cadence update.
LeavesCharging(cs) == Truthy(cs) /\ is_charging /\ cs # Some("Charging")
EntersCharging_Any(cs) == Truthy(cs) /\ cs = Some("Charging")
EntersCharging(cs) == Truthy(cs) /\ ~is_charging /\ cs = Some("Charging")

\* is_charging after a poll whose fetch raised.
IsChargingAfterFailedFetch_Reset == FALSE
IsChargingAfterFailedFetch == is_charging

\* ------------------ the start/stop buttons: description and state
\* Number of button presses made in one behaviour.
MaxPresses == 1

\* Number of periodic polls of the operational data made in a behaviour in
\* which buttons are pressed.
MaxButtonPolls == 2

\* entity_description.available_on_states
AvailableOnStates(b) ==
    IF b = "start_charging" THEN {Some("EVConnected")}
    ELSE {Some("Charging"), Some("SuspendedEV")}

\* entity_description.refresh_coordinator_wait, in seconds
RefreshCoordinatorWait(b) == IF b = "start_charging" THEN 5 ELSE 1

\* The outcomes of on_press (start_charging, stop_charging): the request
\* succeeds, is forbidden (mapped to ValueError), fails otherwise, or the
\* press is cancelled while it awaits the request.
OnPressResults ==
    {"ok", "ValueError", "CloudChargeRequestError", "CancelledError"}

\* The outcomes of coordinator.async_refresh(): the poll succeeded, the poll
\* failed (recorded by the coordinator, nothing raised), or the await of the
\* refresh itself raised.
RefreshResults == {"ok", "failed", "raised"}

\* ChargeStartStopButton.available, for the buttons bs
AvailableIn(bs, b) == bs[b].is_available /\ ~bs[b].is_processing
Available(b) == AvailableIn(btn, b)

\* async_press: whether the sleep and the refresh follow on_press with
\* result res.  They are in the finally block: always.
RefreshFollows_OnlyOnSuccess(res) == res = "ok"
RefreshFollows(res) == TRUE

\* async_press: what the press raises, given the outcomes of on_press and of
\* the refresh ("none" when the sleep before it raised and no refresh was
\* made).  An exception of the sleep or of the refresh replaces the one of
\* on_press.
PressRaises(res, r) ==
    IF r = "raised" THEN "RefreshError"
    ELSE IF r = "none" THEN "CancelledError"
    ELSE IF res # "ok" THEN res
    ELSE "none"

\* _handle_coordinator_update of every button, the coordinator's document
\* having charging state cs.
ButtonsAfterUpdate(bs, cs) ==
    [b \in Buttons |->
        [bs[b] EXCEPT !.is_available = cs \in AvailableOnStates(b)]]

\* The innermost finally block of async_press: the press of button who, if
\* who is a button, ends.
ButtonsAfterRefresh(bs, who) ==
    IF who \in Buttons
    THEN [bs EXCEPT ![who].is_processing = FALSE, ![who].pc = "idle",
                    ![who].press = 0]
    ELSE bs

\* The press log once the buttons are bs2 and the refresh of who's press,
\* if who is a button, has ended with r: every press still running notes
\* whether its button shows as available.
PressLogAfter(bs2, who, r) ==
    [i \in DOMAIN pressLog |->
        LET e == pressLog[i]
        IN  IF who \in Buttons /\ btn[who].press = i
            THEN [e EXCEPT !.refresh = r,
                           !.raised = PressRaises(e.on_press, r),
                           !.processing_at_end = bs2[who].is_processing]
            ELSE IF btn[e.button].press = i
            THEN [e EXCEPT !.shown_available =
                               @ \/ AvailableIn(bs2, e.button)]
            ELSE e]

\* ------------------------------ the polls of the operational data
\* The record of one poll: who ran it, what was fetched, what the poll
\* raised, how many requests it sent, whether start-live-consumption was one
\* of them, and the cadence before and after it.
OpEntry(who, fetch, cs, raised, requests, started) ==
    [who |-> who, fetch |-> fetch, state |-> cs, raised |-> raised,
     requests |-> requests, started |-> started,
     was_charging |-> is_charging, was_interval |-> update_interval,
     now_charging |-> is_charging', now_interval |-> update_interval']

\* The timer's polls made so far, and the polls made by the timer and the
\* service handlers together.
TimerPolls == Cardinality({i \in DOMAIN opLog : opLog[i].who = "timer"})
UnpressedPolls ==
    Cardinality({i \in DOMAIN opLog : opLog[i].who \notin Buttons})

\* The fetch of a poll of who may be answered: who has a poll running that
\* has not fetched yet.  The timer and the service calls poll a bounded
\* number of times; the timer's next poll is scheduled when a refresh ends,
\* so its polls follow one another; every service call is a task of its own
\* that polls after its request and its sleep, which touch nothing of the
\* coordinator, so the poll of one call may be answered while the polls of
\* other calls are still running; a button polls when its press has come to
\* its refresh.  Polls are not serialised: one may be answered while others
\* await async_start_live_consumption.
MayPoll(who) ==
    /\ who # "service" => oppc[who] = "idle"
    /\ who \notin Buttons => UnpressedPolls < MaxPolls
    /\ who \in Buttons => btn[who].pc = "refreshing"

\* The entries of opLog of the polls of who that await
\* async_start_live_consumption: at most one for the timer and for a button,
\* any number for the service calls.
PendingPolls(who) ==
    {k \in DOMAIN opLog : opLog[k].who = who /\ opLog[k].raised = "pending"}

\* The entry of opLog of the one poll of who that awaits
\* async_start_live_consumption.
PendingOf(who) == CHOOSE k \in PendingPolls(who) : TRUE

\* The poll of who has ended with result r for async_refresh: after a
\* successful poll the coordinator hands its document, with charging state
\* cs, to the buttons; then the press that asked for the refresh ends.
PollEnds(who, r, cs) ==
    LET bs1 == IF r = "ok" THEN ButtonsAfterUpdate(btn, cs) ELSE btn
        bs2 == ButtonsAfterRefresh(bs1, who)
    IN  /\ btn' = bs2
        /\ pressLog' = PressLogAfter(bs2, who, r)

\* A poll whose async_get_operational_data raises err.
OpFetchFail(who, err) ==
    /\ MayPoll(who)
    /\ is_charging' = IsChargingAfterFailedFetch
    /\ UNCHANGED <<update_interval, oppc>>
    /\ opLog' = Append(opLog,
           OpEntry(who, err, None, UpdateDataRaises(err), 1, FALSE))
    /\ PollEnds(who, "failed", None)
    /\ UNCHANGED notOp

\* A poll whose fetch returns document d, up to its return or to its await
\* of async_start_live_consumption.
OpFetchOk(who, d) ==
    /\ MayPoll(who)
    /\ LET cs == ChargingStateOf(d)
       IN  IF LeavesCharging(cs)
           THEN /\ is_charging' = FALSE
                /\ update_interval' = IdleInterval
                /\ opLog' = Append(opLog,
                       OpEntry(who, "ok", cs, "none", 1, FALSE))
                /\ PollEnds(who, "ok", cs)
                /\ UNCHANGED oppc
           ELSE IF EntersCharging(cs)
           THEN /\ is_charging' = TRUE
                /\ update_interval' = ActiveInterval
                /\ oppc' = [oppc EXCEPT ![who] = "starting"]
                /\ opLog' = Append(opLog,
                       OpEntry(who, "ok", cs, "pending", 2, TRUE))
                /\ UNCHANGED buttonVars
           ELSE /\ UNCHANGED <<is_charging, update_interval, oppc>>
                /\ opLog' = Append(opLog,
                       OpEntry(who, "ok", cs, "none", 1, FALSE))
                /\ PollEnds(who, "ok", cs)
    /\ UNCHANGED notOp

\* async_start_live_consumption of a poll of who ends: the poll returns the
\* document it fetched, or the request's exception ends the poll; is_charging
\* and the interval stay as they are by then.  who stays in "starting" while
\* another of its polls awaits the request.
OpStartEnd(who, err) ==
    /\ oppc[who] = "starting"
    /\ \E k \in PendingPolls(who) :
           /\ oppc' = [oppc EXCEPT ![who] = IF PendingPolls(who) = {k}
                                            THEN "idle" ELSE "starting"]
           /\ opLog' = [opLog EXCEPT ![k].raised =
                            IF err = "ok" THEN "none" ELSE err]
           /\ PollEnds(who, IF err = "ok" THEN "ok" ELSE "failed",
                       opLog[k].state)
    /\ UNCHANGED <<is_charging, update_interval>>
    /\ UNCHANGED notOp

\* The operational-data coordinator polled again and again by its timer and
\* by the start_charging and stop_charging services.
OpNext ==
    \/ \E who \in Pollers \ Buttons, d \in OperationalDocs :
           OpFetchOk(who, d)
    \/ \E who \in Pollers \ Buttons,
          err \in {"CloudChargeAuthError", "CloudChargeRequestError"} :
           OpFetchFail(who, err)
    \/ \E who \in Pollers \ Buttons,
          err \in {"ok", "CloudChargeRequestError"} :
           OpStartEnd(who, err)

OpSpec == Init /\ [][OpNext]_vars

\* ------------------------------------------- the polls' error mapping
\* Number of polls, of the three coordinators together, in one behaviour.
MaxPollCycles == 3

\* The chargepoints a fetch returns: an id and an aliasMap from connector
\* alias to connector record; a record may carry a chargepoint_id already.
Chargepoints ==
    {[id |-> i, aliasMap |-> am] :
        i \in {"cp1", "cp2"},
        am \in {<<>>,
                [A1 |-> [id |-> "c1"]],
                [A1 |-> [id |-> "c1"],
                 A2 |-> [id |-> "c2", chargepoint_id |-> "old"]]}}

\* dict[key] = value
SetKey(r, key, value) ==
    [x \in DOMAIN r \cup {key} |-> IF x = key THEN value ELSE r[x]]

\* connector["chargepoint_id"] = chargepoint["id"]
TagConnector_Untagged(cp, alias) == cp.aliasMap[alias]
TagConnector(cp, alias) ==
    SetKey(cp.aliasMap[alias], "chargepoint_id", cp.id)

\* What the chargepoint poll returns for the fetched chargepoint cp.  The
\* connector records are tagged in place, so the returned chargepoint holds
\* the tagged records too.
ChargepointResult(cp) ==
    LET connectors == [a \in DOMAIN cp.aliasMap |-> TagConnector(cp, a)]
    IN  [chargepoint |-> [cp EXCEPT !.aliasMap = connectors],
         connectors |-> connectors]

\* The record of one poll of the chargepoint or of the eco-mode coordinator.
PollEntry(coord, fetch, raised, fetched, returned) ==
    [coord |-> coord, fetch |-> fetch, raised |-> raised, requests |-> 1,
     fetched |-> fetched, returned |-> returned]

PollsLeft == Len(pollLog) + Len(opLog) < MaxPollCycles

\* _async_update_data of the chargepoint or the eco-mode coordinator, when
\* its fetch raises err.
PollFail(coord, err) ==
    /\ PollsLeft
    /\ pollLog' = Append(pollLog,
           PollEntry(coord, err, UpdateDataRaises(err), None, None))
    /\ UNCHANGED <<ecoVars, opVars, clientVars, buttonVars>>

\* CloudChargeChargepointCoordinator._async_update_data, the fetch returning
\* chargepoint cp.
ChargepointPollOk(cp) ==
    /\ PollsLeft
    /\ pollLog' = Append(pollLog,
           PollEntry("chargepoint", "ok", "none", Some(cp),
                     Some(ChargepointResult(cp))))
    /\ UNCHANGED <<ecoVars, opVars, clientVars, buttonVars>>

\* CloudChargeEcoModeCoordinator._async_update_data, the fetch returning the
\* server's document.
EcoPollOk ==
    /\ PollsLeft
    /\ pollLog' = Append(pollLog,
           PollEntry("eco_mode", "ok", "none", Some(remote), Some(remote)))
    /\ UNCHANGED <<ecoVars, opVars, clientVars, buttonVars>>

\* The polls of the three coordinators, in any order.
PollNext ==
    \/ \E cp \in Chargepoints : ChargepointPollOk(cp)
    \/ EcoPollOk
    \/ \E coord \in {"chargepoint", "eco_mode"}, err \in FetchErrors :
           PollFail(coord, err)
    \/ PollsLeft /\ \E err \in FetchErrors : OpFetchFail("timer", err)

PollSpec == Init /\ [][PollNext]_vars

\* ------------------------------------------- API client: responses
\* The statuses and body texts of the responses handed to
\* __async_check_response; reading the body text can fail.
Statuses == 200..599
Bodies == {"Invalid phone number", "Invalid login credentials."}

\* response.ok of the HTTP library: the status is below 400.
ResponseOk_2xx(status) == status \in 200..299
ResponseOk(status) == status < 400

\* `message = await response.text()`, or "" when reading it raises.
MessageOf(body, readable) == IF readable THEN body ELSE ""

\* __async_check_response: the exception raised ("none" for a plain return)
\* and the message it carries.
CheckResponse(status, body, readable) ==
    IF status = 401
    THEN [raises |-> "CloudChargeAuthError", message |-> None]
    ELSE IF status = 400
    THEN [raises |-> "CloudChargeBadRequestError",
          message |-> Some(MessageOf(body, readable))]
    ELSE IF status = 403
    THEN [raises |-> "CloudChargeForbiddenError",
          message |-> Some(MessageOf(body, readable))]
    ELSE IF ~ResponseOk(status)
    THEN [raises |-> "CloudChargeRequestError", message |-> None]
    ELSE [raises |-> "none", message |-> None]

\* Any response arrives at a fresh client.
ResponseInit ==
    /\ EcoInit
    /\ OpInit
    /\ pollLog = <<>>
    /\ ClientInit
    /\ ButtonInit
    /\ \E st \in Statuses, b \in Bodies, rd \in BOOLEAN :
           response = Some([status |-> st, body |-> b, readable |-> rd,
                            checked |-> FALSE, raises |-> "none",
                            message |-> None])

\* __async_check_response is applied to the response.
CheckResponseStep ==
    /\ response # None
    /\ ~response[1].checked
    /\ LET r == response[1]
           out == CheckResponse(r.status, r.body, r.readable)
       IN  response' = Some([r EXCEPT !.checked = TRUE,
                                      !.raises = out.raises,
                                      !.message = out.message])
    /\ UNCHANGED <<buttonVars, ecoVars, opVars, pollVars,
                   logged_in, headers, inflight, clientLog>>

ResponseNext == CheckResponseStep

ResponseSpec == ResponseInit /\ [][ResponseNext]_vars

\* ------------------------------------------- API client: login state
\* Number of client operations called in one behaviour.
MaxClientOps == 3

Credentials ==
    {[user_id |-> "u1", token |-> "t1"], [user_id |-> "u2", token |-> "t2"]}

\* __build_auth_headers
BuildAuthHeaders(user_id, token) ==
    [x_authorization |-> token, x_user |-> user_id]

\* The statuses the server answers the client's requests with.
ClientStatuses == {200, 401, 500}

\* The operations modelled that start with __check_logged_in.
AuthenticatedOps == {"logout", "set_eco_mode_configuration",
                     "export_credentials"}
LoginOps == {"login_with_token", "login_with_phone_number"}

\* The operations called so far.
OpsStarted == Len(clientLog) + Cardinality(inflight)

\* __check_logged_in lets the caller pass.
CheckLoggedIn_Skip == TRUE
CheckLoggedIn == logged_in

\* The record of an operation that has ended: what it raised ("none" for a
\* plain return), the HTTP requests it sent, the login state when it was
\* called, and the login state and headers before and after its last step.
ClientEntry(op, result, http, began) ==
    [op |-> op, result |-> result, http |-> http, began_logged_in |-> began,
     was_logged_in |-> logged_in, was_headers |-> headers,
     now_logged_in |-> logged_in', now_headers |-> headers']

\* set_login, and import_credentials which calls it.
SetLogin(op, c) ==
    /\ OpsStarted < MaxClientOps
    /\ headers' = Some(BuildAuthHeaders(c.user_id, c.token))
    /\ logged_in' = TRUE
    /\ clientLog' = Append(clientLog, ClientEntry(op, "none", 0, logged_in))
    /\ UNCHANGED <<buttonVars, ecoVars, opVars, pollVars, inflight, response>>

\* forget_login
ForgetLogin ==
    /\ OpsStarted < MaxClientOps
    /\ logged_in' = FALSE
    /\ headers' = None
    /\ clientLog' = Append(clientLog,
           ClientEntry("forget_login", "none", 0, logged_in))
    /\ UNCHANGED <<buttonVars, ecoVars, opVars, pollVars, inflight, response>>

\* export_credentials
ExportCredentials ==
    /\ OpsStarted < MaxClientOps
    /\ UNCHANGED <<logged_in, headers>>
    /\ clientLog' = Append(clientLog,
           ClientEntry("export_credentials",
               IF CheckLoggedIn THEN "none" ELSE "CloudChargeNotLoggedInError",
               0, logged_in))
    /\ UNCHANGED <<buttonVars, ecoVars, opVars, pollVars, inflight, response>>

\* async_login_with_token(c) / async_login_with_phone_number up to the await
\* of the response; c is the credentials passed in, or the ones the server
\* will return for the phone number.
LoginBegin(op, c) ==
    /\ OpsStarted < MaxClientOps
    /\ inflight' = inflight \cup
           {[id |-> OpsStarted + 1, op |-> op, began |-> logged_in,
             headers |-> Some(BuildAuthHeaders(c.user_id, c.token))]}
    /\ UNCHANGED <<buttonVars, ecoVars, opVars, pollVars,
                   logged_in, headers, clientLog, response>>

\* async_logout / async_set_eco_mode_configuration up to the await of the
\* response, or to the raise of __check_logged_in.
AuthBegin(op) ==
    /\ OpsStarted < MaxClientOps
    /\ UNCHANGED <<logged_in, headers>>
    /\ IF CheckLoggedIn
       THEN /\ inflight' = inflight \cup
                   {[id |-> OpsStarted + 1, op |-> op, began |-> logged_in,
                     headers |-> headers]}
            /\ UNCHANGED clientLog
       ELSE /\ clientLog' = Append(clientLog,
                   ClientEntry(op, "CloudChargeNotLoggedInError", 0,
                               logged_in))
            /\ UNCHANGED inflight
    /\ UNCHANGED <<buttonVars, ecoVars, opVars, pollVars, response>>

\* The response of operation o arrives with the given status: the operation
\* raises what __async_check_response raises, or completes.
ClientEnd(o, status) ==
    /\ o \in inflight
    /\ inflight' = inflight \ {o}
    /\ LET raises == CheckResponse(status, "", TRUE).raises
       IN  /\ IF raises = "none" /\ o.op \in LoginOps
              THEN headers' = o.headers /\ logged_in' = TRUE
              ELSE IF raises = "none" /\ o.op = "logout"
              THEN logged_in' = FALSE /\ headers' = None
              ELSE UNCHANGED <<logged_in, headers>>
           /\ clientLog' = Append(clientLog,
                  ClientEntry(o.op, raises, 1, o.began))
    /\ UNCHANGED <<buttonVars, ecoVars, opVars, pollVars, response>>

ClientNext ==
    \/ \E op \in {"set_login", "import_credentials"}, c \in Credentials :
           SetLogin(op, c)
    \/ ForgetLogin
    \/ ExportCredentials
    \/ \E op \in LoginOps, c \in Credentials : LoginBegin(op, c)
    \/ \E op \in {"logout", "set_eco_mode_configuration"} : AuthBegin(op)
    \/ \E o \in inflight, status \in ClientStatuses : ClientEnd(o, status)

ClientSpec == Init /\ [][ClientNext]_vars

\* ------------------------------------- the start/stop charging buttons
\* async_press up to its await of on_press.  The press service reaches only
\* an entity that is available.
PressBegin(b) ==
    /\ Len(pressLog) < MaxPresses
    /\ btn[b].pc = "idle"
    /\ Available(b)
    /\ btn' = [btn EXCEPT ![b].is_processing = TRUE, ![b].pc = "pressing",
                          ![b].press = Len(pressLog) + 1]
    /\ pressLog' = Append(pressLog,
           [button |-> b, on_press |-> "pending", slept |-> 0,
            refresh |-> "none", raised |-> "pending",
            shown_available |-> Available(b)',
            processing_at_end |-> TRUE])
    /\ UNCHANGED <<ecoVars, opVars, pollVars, clientVars>>

\* on_press ends with result res; the finally block begins its sleep.
PressEnd(b, res) ==
    /\ btn[b].pc = "pressing"
    /\ IF RefreshFollows(res)
       THEN /\ btn' = [btn EXCEPT ![b].pc = "sleeping"]
            /\ pressLog' = [pressLog EXCEPT ![btn[b].press].on_press = res]
       ELSE /\ btn' = [btn EXCEPT ![b].pc = "idle", ![b].press = 0,
                                  ![b].is_processing = FALSE]
            /\ pressLog' = [pressLog EXCEPT
                               ![btn[b].press].on_press = res,
                               ![btn[b].press].raised = res,
                               ![btn[b].press].processing_at_end = FALSE]
    /\ UNCHANGED <<ecoVars, opVars, pollVars, clientVars>>

\* asyncio.sleep(refresh_coordinator_wait) ends; the press calls
\* coordinator.async_refresh(), whose poll is OpFetchOk or OpFetchFail of
\* this button.
SleepEnd(b) ==
    /\ btn[b].pc = "sleeping"
    /\ btn' = [btn EXCEPT ![b].pc = "refreshing"]
    /\ pressLog' = [pressLog EXCEPT
                       ![btn[b].press].slept = RefreshCoordinatorWait(b)]
    /\ UNCHANGED <<ecoVars, opVars, pollVars, clientVars>>

\* The press is cancelled in its asyncio.sleep: no refresh is made, the
\* innermost finally block resets is_processing and the press ends with
\* CancelledError.
PressSleepRaise(b) ==
    /\ btn[b].pc = "sleeping"
    /\ btn' = ButtonsAfterRefresh(btn, b)
    /\ pressLog' = [pressLog EXCEPT
                       ![btn[b].press].raised =
                           PressRaises(pressLog[btn[b].press].on_press,
                                       "none"),
                       ![btn[b].press].processing_at_end =
                           btn'[b].is_processing]
    /\ UNCHANGED <<ecoVars, opVars, pollVars, clientVars>>

\* The press is cancelled at its await of coordinator.async_refresh(): its
\* poll, which has fetched nothing yet or awaits
\* async_start_live_consumption, ends with CancelledError and stores and
\* announces nothing (is_charging and the interval stay as the poll has set
\* them); the innermost finally block resets is_processing and the press
\* ends with that exception.  Polls of other pollers go on.
PressRefreshRaise(b) ==
    /\ btn[b].pc = "refreshing"
    /\ IF oppc[b] = "starting"
       THEN /\ oppc' = [oppc EXCEPT ![b] = "idle"]
            /\ opLog' = [opLog EXCEPT
                             ![PendingOf(b)].raised = "CancelledError"]
       ELSE UNCHANGED <<oppc, opLog>>
    /\ PollEnds(b, "raised", None)
    /\ UNCHANGED <<is_charging, update_interval>>
    /\ UNCHANGED <<ecoVars, pollVars, clientVars>>

\* The documents fetched while buttons are pressed: one for each charging
\* state a button's description names, and one without a charging state.
ButtonDocs ==
    {d \in OperationalDocs :
        \/ \E b \in Buttons : ChargingStateOf(d) \in AvailableOnStates(b)
        \/ "ocpp" \notin DOMAIN d}

\* The buttons of one connector, pressed while the operational-data
\* coordinator polls on its timer and at the presses' refreshes.
ButtonNext ==
    \/ TimerPolls < MaxButtonPolls
           /\ \E d \in ButtonDocs : OpFetchOk("timer", d)
    \/ TimerPolls < MaxButtonPolls
           /\ \E err \in {"CloudChargeRequestError"} : OpFetchFail("timer", err)
    \/ \E b \in Buttons, d \in ButtonDocs : OpFetchOk(b, d)
    \/ \E b \in Buttons : OpFetchFail(b, "CloudChargeRequestError")
    \/ \E who \in Pollers, err \in {"ok", "CloudChargeRequestError"} :
           OpStartEnd(who, err)
    \/ \E b \in Buttons : PressBegin(b)
    \/ \E b \in Buttons, res \in OnPressResults : PressEnd(b, res)
    \/ \E b \in Buttons : SleepEnd(b)
    \/ \E b \in Buttons : PressSleepRaise(b)
    \/ \E b \in Buttons : PressRefreshRaise(b)

ButtonSpec == Init /\ [][ButtonNext]_vars

\* ------------------------------------------------------------ properties
\* The mutators of calls lo..hi, in call order.
MutSeq(lo, hi) == [k \in 1..(hi - lo + 1) |-> calls[lo + k - 1].m]

\* The mutators ms applied in order to document d.
RECURSIVE ApplyAll(_, _)
ApplyAll(d, ms) ==
    IF ms = <<>> THEN d ELSE ApplyAll(Callback(Head(ms), d), Tail(ms))

\* The first call that edited the overlay call c edited.
FirstOfGen(c) ==
    CHOOSE lo \in 1..c :
        /\ calls[lo].gen = calls[c].gen
        /\ \A k \in 1..c : calls[k].gen = calls[c].gen => lo <= k

\* The overlay as the calls made up to call c define it: the document cloned
\* by the first call of that overlay, with every edit since applied in order.
MergedUpTo(c) == ApplyAll(calls[c].base, MutSeq(FirstOfGen(c), c))

\* The fields of the document, and two documents agreeing in one of them.
Fields == {"active", "pickupTimeEnabled", "hoursToCharge", "dayOfWeekMap"}
SameField(f, d1, d2) ==
    CASE f = "active" -> d1.active = d2.active
      [] f = "pickupTimeEnabled" -> d1.pickupTimeEnabled = d2.pickupTimeEnabled
      [] f = "hoursToCharge" -> d1.hoursToCharge = d2.hoursToCharge
      [] f = "dayOfWeekMap" -> d1.dayOfWeekMap = d2.dayOfWeekMap

CallsOf(t) == {c \in DOMAIN calls : calls[c].task = t}
WritesOf(t) == {i \in DOMAIN sent : sent[i].task = t}
FirstWriteOf(t) == CHOOSE i \in WritesOf(t) : \A j \in WritesOf(t) : i <= j
LastWriteOf(t) == CHOOSE i \in WritesOf(t) : \A j \in WritesOf(t) : i >= j
LiveTasks == {t \in Tasks : task[t] \in {"created", "writing", "polling"}}
InFlightWrites == {i \in DOMAIN sent : sent[i].status = "inflight"}

C2_OneAdditionalMergedWrite ==
    [][\A t \in Tasks :
          (/\ task[t] = "writing"
           /\ sent'[InFlightOf(t)].status = "ok"
           /\ Len(calls) > sent[InFlightOf(t)].upto)
          => /\ Len(sent') = Len(sent) + 1
             /\ sent'[Len(sent')].task = t
             /\ sent'[Len(sent')].status = "inflight"
             /\ sent'[Len(sent')].upto = Len(calls)
             /\ sent'[Len(sent')].doc = BuildRequest(MergedUpTo(Len(calls)))
             /\ ~has_changes'
             /\ \A i \in 2..Len(sent') :
                    sent'[i].task = sent'[i-1].task
                        => sent'[i].upto > sent'[i-1].upto]_vars

C2_Witness ==
    \E i \in DOMAIN sent :
        /\ i >= 2
        /\ sent[i].task = sent[i-1].task
        /\ sent[i-1].status = "ok"
        /\ sent[i].upto >= sent[i-1].upto + 2
        /\ sent[i].status = "ok"
        /\ sent[i].doc.active /\ sent[i].doc.hoursToCharge = 5
        /\ ~(sent[i-1].doc.active /\ sent[i-1].doc.hoursToCharge = 5)
        /\ Cardinality(WritesOf(sent[i].task)) = 2
        /\ TaskDone(sent[i].task)

\* C3: at every moment at most one save task exists that has not ended, it
\* is the task the coordinator holds, and at most one write of the
\* coordinator is in flight; and a step that makes a set_data call while a
\* save task has not ended creates no task: the call awaits that task.
C3_SingleFlight ==
    /\ [](/\ Cardinality(LiveTasks) <= 1
          /\ LiveTasks \subseteq {save_task}
          /\ Cardinality(InFlightWrites) <= 1)
    /\ [][(Len(calls') = Len(calls) + 1 /\ LiveTasks # {})
             => /\ task' = task
                /\ save_task' = save_task
                /\ calls'[Len(calls')].task \in LiveTasks
                /\ calls'[Len(calls')].pc = "awaiting"]_vars

C3_Witness ==
    \E t \in Tasks :
        /\ task[t] = "writing"
        /\ t >= 2
        /\ \E c1, c2 \in CallsOf(t) :
               /\ c1 # c2
               /\ calls[c1].at = "new"
               /\ calls[c2].at = "writing"
               /\ calls[c1].pc = "awaiting" /\ calls[c2].pc = "awaiting"

\* C4: a call that has returned normally awaited a task that has ended, and
\* a write of that task that was built after the call's edit, from the
\* overlay the call edited merged up to then, has succeeded; that write
\* holds the call's value unless a later call merged into it set the same
\* field.
C4_ReturnMeansWritten ==
    \A c \in DOMAIN calls :
        calls[c].pc = "returned_ok" =>
            /\ TaskDone(calls[c].task)
            /\ \E i \in WritesOf(calls[c].task) :
                   /\ sent[i].status = "ok"
                   /\ sent[i].upto >= c
                   /\ calls[sent[i].upto].gen = calls[c].gen
                   /\ sent[i].doc = BuildRequest(MergedUpTo(sent[i].upto))
                   /\ (\A k \in (c+1)..sent[i].upto :
                           FieldOf(calls[k].m) # FieldOf(calls[c].m))
                      => Callback(calls[c].m, sent[i].doc) = sent[i].doc

C4_Witness ==
    \E c1, c2 \in DOMAIN calls :
        /\ calls[c1].pc = "returned_ok" /\ calls[c1].at = "writing"
        /\ calls[c2].pc = "returned_ok" /\ calls[c2].at = "polling"
        /\ calls[c1].m = "hours_5" /\ calls[c2].m = "hours_7"
        /\ c1 < c2
        /\ sent[LastWriteOf(calls[c1].task)].doc.hoursToCharge = 7

\* C5: the step in which a write fails drops the overlay, so that get_data()
\* is the last confirmed document, and leaves the task's callers suspended;
\* every call awaiting that task, the one that started it and the ones that
\* joined it, ends with the write's error when it runs again -- unless the
\* caller was itself cancelled meanwhile, which ends it with CancelledError;
\* and only a call whose task ended by a write failure ends with that error.
C5_FailureDropsAndRaises ==
    [][/\ \A t \in Tasks :
             (task[t] = "writing" /\ task'[t] = "done_err")
             => /\ modified_data' = None
                /\ GetData' = data'
                /\ data' = data
                /\ calls' = calls
       /\ \A c \in DOMAIN calls :
             (calls[c].pc = "awaiting" /\ calls'[c].pc # "awaiting")
             => /\ task[calls[c].task] = "done_err" =>
                       calls'[c].pc \in {"returned_err", "cancelled"}
                /\ calls'[c].pc = "returned_err" =>
                       task[calls[c].task] = "done_err"]_vars

C5_Witness ==
    \E t \in Tasks :
        /\ task[t] = "done_err"
        /\ modified_data = None
        /\ GetData = data
        /\ \E c1, c2 \in CallsOf(t) :
               /\ calls[c1].at = "new" /\ calls[c1].pc = "returned_err"
               /\ calls[c2].at = "writing" /\ calls[c2].pc = "returned_err"

\* C6: the step in which a save process ends cleanly starts from an overlay
\* equal to the content of the last write the process sent; that write has
\* succeeded and was built after every call made so far, and it holds the
\* edit of every call of the process that no later call overwrote (a later
\* call on the same field replaces the value).  The step drops the overlay.
C6_NoEditLost ==
    [][\A t \in Tasks :
          (task[t] \in {"created", "writing", "polling"}
              /\ task'[t] = "done_ok")
          => /\ WritesOf(t) # {}
             /\ modified_data # None
             /\ sent[LastWriteOf(t)].doc = BuildRequest(modified_data[1])
             /\ sent[LastWriteOf(t)].status = "ok"
             /\ sent[LastWriteOf(t)].upto = Len(calls)
             /\ \A c \in CallsOf(t) :
                    (\A k \in (c + 1)..Len(calls) :
                         FieldOf(calls[k].m) # FieldOf(calls[c].m))
                    => Callback(calls[c].m, modified_data[1])
                           = modified_data[1]
             /\ modified_data' = None]_vars

C6_Witness ==
    \E t \in Tasks :
        /\ task[t] = "done_ok"
        /\ Cardinality(WritesOf(t)) = 3
        /\ \E c1, c2 \in CallsOf(t) :
               calls[c1].at = "writing" /\ calls[c2].at = "polling"
        /\ sent[LastWriteOf(t)].doc.active
        /\ sent[LastWriteOf(t)].doc.hoursToCharge = 7
        /\ sent[LastWriteOf(t) - 1].doc.hoursToCharge = 5

\* C7: the step in which a save process ends after a successful re-poll
\* leaves no overlay, and get_data() is the document that re-poll fetched.
C7_CleanExitShowsRepolled ==
    [][\A t \in Tasks :
          (task[t] = "polling" /\ task'[t] = "done_ok"
              /\ last_update_success')
          => /\ sent[LastWriteOf(t)].status = "ok"
             /\ modified_data' = None
             /\ GetData' = Some(remote)]_vars

C7_Witness ==
    \E t \in Tasks :
        /\ task[t] = "done_ok"
        /\ save_task = 0
        /\ last_update_success
        /\ modified_data = None
        /\ GetData = Some(remote)
        /\ sent[LastWriteOf(t)].status = "ok"
        /\ remote # sent[LastWriteOf(t)].doc

\* C8: while an overlay is pending get_data() is that overlay, the document
\* cloned at its first edit with every edit since applied; otherwise
\* get_data() is the last confirmed document.
C8_ViewIsOverlayElseConfirmed ==
    /\ modified_data # None =>
           /\ calls # <<>>
           /\ GetData = Some(MergedUpTo(Len(calls)))
    /\ modified_data = None => GetData = data

C8_Witness ==
    /\ modified_data # None
    /\ GetData # data
    /\ Len(calls) >= 2
    /\ data # Some(InitialDoc)

\* C9: the pending overlay holds the edit of every call made on it that no
\* later call on the same field has replaced, and in every field no call
\* has edited it equals the document it was cloned from.
C9_EditsMergeIntoOneOverlay ==
    modified_data # None =>
        LET n == Len(calls)
            lo == FirstOfGen(n)
        IN  /\ \A c \in lo..n :
                   (\A k \in (c+1)..n : FieldOf(calls[k].m) # FieldOf(calls[c].m))
                   => Callback(calls[c].m, modified_data[1]) = modified_data[1]
            /\ \A f \in Fields :
                   (\A c \in lo..n : FieldOf(calls[c].m) # f)
                   => SameField(f, modified_data[1], calls[n].base)

C9_Witness ==
    /\ modified_data # None
    /\ Len(calls) >= 2
    /\ calls[Len(calls)].gen = calls[Len(calls) - 1].gen
    /\ calls[Len(calls)].at = "writing"
    /\ modified_data[1].active
    /\ modified_data[1].hoursToCharge = 5
    /\ ~data[1].active
    /\ data[1].hoursToCharge # 5

\* C10 as stated: once the switch's and the number entity's edits have both
\* completed without error, the remote document holds both new values.
C10_EntityEditsMerge ==
    (/\ ent["switch_active"].pc = "done"
     /\ ent["switch_active"].value = Some(TRUE)
     /\ ent["number_hours"].pc = "done"
     /\ ent["switch_pickup"].pc = "idle"
     /\ ent["select_monday"].pc = "idle")
        => remote.active /\ remote.hoursToCharge = 5

\* C11 as stated: while an overlay is pending, the state the eco-mode switch,
\* number and select entities compute is the pending value of get_data() and
\* not the last confirmed one.
C11_EntitiesShowPendingView ==
    modified_data # None =>
        /\ \A e \in SetFnEntities :
               SetState(e, None) = ValueFn(e, GetData[1])
        /\ SelectSetState(None) = MappedState(GetData[1])

\* The polls that fetched a charging state (present and not empty).
HasState(i) ==
    opLog[i].fetch = "ok" /\ opLog[i].state \notin {None, Some("")}
Reports(i, st) == opLog[i].fetch = "ok" /\ opLog[i].state = Some(st)

\* Poll i is a transition into charging of the sequence of fetched charging
\* states: it reports 'Charging' and the reading before it, if any, did not.
IsTransition(i) ==
    /\ Reports(i, "Charging")
    /\ \A j \in 1..(i-1) :
           (HasState(j) /\ \A k \in (j+1)..(i-1) : ~HasState(k))
               => ~Reports(j, "Charging")

\* C12: a poll that fetched a charging state calls start-live-consumption
\* (once) exactly when it reports 'Charging' while is_charging is False, which
\* is exactly at the transitions into charging of the sequence of readings;
\* after a 'Charging' reading the interval is 10s, after any other reading
\* 60s.
C12_StartOncePerTransition ==
    \A i \in DOMAIN opLog :
        HasState(i) =>
            /\ opLog[i].started
                   <=> (Reports(i, "Charging") /\ ~opLog[i].was_charging)
            /\ opLog[i].started <=> IsTransition(i)
            /\ opLog[i].requests = IF opLog[i].started THEN 2 ELSE 1
            /\ Reports(i, "Charging") =>
                   opLog[i].now_charging /\ opLog[i].now_interval = 10
            /\ ~Reports(i, "Charging") =>
                   ~opLog[i].now_charging /\ opLog[i].now_interval = 60
            /\ i = Len(opLog) =>
                   /\ update_interval = opLog[i].now_interval
                   /\ is_charging = opLog[i].now_charging

C12_Witness ==
    /\ Len(opLog) = 4
    /\ oppc["timer"] = "idle"
    /\ Reports(1, "EVConnected") /\ Reports(2, "Charging")
    /\ Reports(3, "Charging") /\ Reports(4, "SuspendedEV")
    /\ [i \in 1..4 |-> opLog[i].now_interval] = <<60, 10, 10, 60>>
    /\ Cardinality({i \in 1..4 : opLog[i].started}) = 1
    /\ update_interval = 60

\* C13 as stated: every successful fetch made while is_charging is True (10s)
\* whose charging state is not 'Charging' -- another value, the empty string
\* or none at all -- leaves is_charging False and the interval 60s.
C13_AnyNonChargingReturnsToIdle ==
    \A i \in DOMAIN opLog :
        (opLog[i].fetch = "ok" /\ opLog[i].was_charging
            /\ ~Reports(i, "Charging"))
        => ~opLog[i].now_charging /\ opLog[i].now_interval = 60

\* C13 amended: a successful fetch made while is_charging is True (10s)
\* returns the coordinator to idle (is_charging False, 60s) when it carries a
\* non-empty charging state other than 'Charging', and leaves is_charging
\* True and the interval 10s when the charging state is absent or empty.
C13_OtherStateReturnsToIdle ==
    \A i \in DOMAIN opLog :
        (opLog[i].fetch = "ok" /\ opLog[i].was_charging
            /\ opLog[i].was_interval = 10)
        => /\ (HasState(i) /\ ~Reports(i, "Charging")) =>
                  ~opLog[i].now_charging /\ opLog[i].now_interval = 60
           /\ ~HasState(i) =>
                  opLog[i].now_charging /\ opLog[i].now_interval = 10

C13_Witness ==
    \E i, j, k \in DOMAIN opLog :
        /\ opLog[i].was_charging /\ Reports(i, "SuspendedEV")
        /\ ~opLog[i].now_charging /\ opLog[i].now_interval = 60
        /\ opLog[j].was_charging /\ opLog[j].fetch = "ok"
        /\ opLog[j].state = None /\ opLog[j].now_charging
        /\ opLog[k].was_charging /\ Reports(k, "")
        /\ opLog[k].now_interval = 10

\* C14: a poll whose fetch raised left is_charging and the interval as they
\* were before it, and sent no request but the fetch.
C14_FailedFetchChangesNothing ==
    \A i \in DOMAIN opLog :
        opLog[i].fetch # "ok" =>
            /\ opLog[i].now_charging = opLog[i].was_charging
            /\ opLog[i].now_interval = opLog[i].was_interval
            /\ ~opLog[i].started
            /\ opLog[i].requests = 1
            /\ i < Len(opLog) =>
                   /\ opLog[i+1].was_charging = opLog[i].was_charging
                   /\ opLog[i+1].was_interval = opLog[i].was_interval

C14_Witness ==
    \E i, j \in DOMAIN opLog :
        /\ opLog[i].fetch = "CloudChargeAuthError"
        /\ opLog[i].was_charging /\ opLog[i].now_charging
        /\ opLog[i].now_interval = 10
        /\ opLog[j].fetch = "CloudChargeRequestError"
        /\ ~opLog[j].was_charging /\ ~opLog[j].now_charging
        /\ opLog[j].now_interval = 60

\* C15: in each coordinator's poll, a fetch that raised CloudChargeAuthError
\* made the poll raise ConfigEntryAuthFailed, a fetch that raised any other
\* CloudChargeAPIError made it raise UpdateFailed, and in both cases the
\* poll sent no request but that fetch.
C15_PollErrorMapping ==
    /\ \A i \in DOMAIN pollLog :
           /\ pollLog[i].fetch = "CloudChargeAuthError" =>
                  /\ pollLog[i].raised = "ConfigEntryAuthFailed"
                  /\ pollLog[i].requests = 1
           /\ pollLog[i].fetch \in APIErrors \ {"CloudChargeAuthError"} =>
                  /\ pollLog[i].raised = "UpdateFailed"
                  /\ pollLog[i].requests = 1
    /\ \A i \in DOMAIN opLog :
           /\ opLog[i].fetch = "CloudChargeAuthError" =>
                  /\ opLog[i].raised = "ConfigEntryAuthFailed"
                  /\ opLog[i].requests = 1
           /\ opLog[i].fetch \in APIErrors \ {"CloudChargeAuthError"} =>
                  /\ opLog[i].raised = "UpdateFailed"
                  /\ opLog[i].requests = 1

C15_Witness ==
    /\ \E i, j \in DOMAIN pollLog :
           /\ pollLog[i].coord = "chargepoint"
           /\ pollLog[i].fetch = "CloudChargeAuthError"
           /\ pollLog[i].raised = "ConfigEntryAuthFailed"
           /\ pollLog[j].coord = "eco_mode"
           /\ pollLog[j].fetch = "CloudChargeForbiddenError"
           /\ pollLog[j].raised = "UpdateFailed"
    /\ \E i \in DOMAIN opLog :
           /\ opLog[i].fetch = "CloudChargeNotLoggedInError"
           /\ opLog[i].raised = "UpdateFailed"

\* C16: a successful chargepoint poll returns a 'connectors' map with
\* exactly the aliases of the fetched aliasMap, each entry being that alias's
\* connector record with chargepoint_id set to the chargepoint's id and
\* every other field as fetched.
C16_ConnectorsMap ==
    \A i \in DOMAIN pollLog :
        (pollLog[i].coord = "chargepoint" /\ pollLog[i].fetch = "ok") =>
            LET cp == pollLog[i].fetched[1]
                res == pollLog[i].returned[1]
            IN  /\ DOMAIN res.connectors = DOMAIN cp.aliasMap
                /\ res.chargepoint.id = cp.id
                /\ \A a \in DOMAIN cp.aliasMap :
                       /\ DOMAIN res.connectors[a]
                              = DOMAIN cp.aliasMap[a] \cup {"chargepoint_id"}
                       /\ res.connectors[a]["chargepoint_id"] = cp.id
                       /\ \A f \in DOMAIN cp.aliasMap[a] \ {"chargepoint_id"} :
                              res.connectors[a][f] = cp.aliasMap[a][f]

C16_Witness ==
    \E i \in DOMAIN pollLog :
        /\ pollLog[i].coord = "chargepoint" /\ pollLog[i].fetch = "ok"
        /\ pollLog[i].fetched[1].id = "cp2"
        /\ DOMAIN pollLog[i].returned[1].connectors = {"A1", "A2"}
        /\ pollLog[i].fetched[1].aliasMap["A2"]["chargepoint_id"] = "old"
        /\ pollLog[i].returned[1].connectors["A2"]
               = [id |-> "c2", chargepoint_id |-> "cp2"]
        /\ pollLog[i].returned[1].connectors["A1"]
               = [id |-> "c1", chargepoint_id |-> "cp2"]

\* C17 as stated: 401 raises CloudChargeAuthError, 400 and 403 raise their
\* error with the body text, every other status outside 200..299 raises
\* CloudChargeRequestError, and a status in 200..299 raises nothing.
C17_StatusMapping ==
    (response # None /\ response[1].checked) =>
        LET r == response[1]
        IN  /\ r.status = 401 => r.raises = "CloudChargeAuthError"
            /\ r.status = 400 =>
                   /\ r.raises = "CloudChargeBadRequestError"
                   /\ r.readable => r.message = Some(r.body)
            /\ r.status = 403 =>
                   /\ r.raises = "CloudChargeForbiddenError"
                   /\ r.readable => r.message = Some(r.body)
            /\ (r.status \notin 200..299 /\ r.status \notin {400, 401, 403})
                   => r.raises = "CloudChargeRequestError"
            /\ r.status \in 200..299 => r.raises = "none"

\* C17 amended: 401 raises CloudChargeAuthError, 400 and 403 raise their
\* error with the body text (the empty text when the body cannot be read),
\* every other status of 400 or more raises CloudChargeRequestError, and
\* every status below 400, 3xx included, raises nothing.
C17_StatusMappingBelow400Ok ==
    (response # None /\ response[1].checked) =>
        LET r == response[1]
        IN  /\ r.status = 401 => r.raises = "CloudChargeAuthError"
            /\ r.status = 400 =>
                   /\ r.raises = "CloudChargeBadRequestError"
                   /\ r.message = Some(IF r.readable THEN r.body ELSE "")
            /\ r.status = 403 =>
                   /\ r.raises = "CloudChargeForbiddenError"
                   /\ r.message = Some(IF r.readable THEN r.body ELSE "")
            /\ (r.status >= 400 /\ r.status \notin {400, 401, 403})
                   => r.raises = "CloudChargeRequestError"
            /\ r.status < 400 => r.raises = "none"

C17_Witness ==
    /\ response # None
    /\ response[1].checked
    /\ response[1].status = 304
    /\ response[1].raises = "none"

\* An ended operation that logged the client in, or out.
IsLogin(e) ==
    \/ e.op \in {"set_login", "import_credentials"}
    \/ e.op \in LoginOps /\ e.result = "none"
IsLogout(e) ==
    \/ e.op = "forget_login"
    \/ e.op = "logout" /\ e.result = "none"

\* C18: is_logged_in() is True exactly when the most recent operation that
\* changed the login state was a login; a login or logout that failed left
\* the login state and the headers as they were; and an authenticated
\* operation called while not logged in raised CloudChargeNotLoggedInError
\* without sending a request.
C18_LoginState ==
    /\ logged_in <=>
           \E i \in DOMAIN clientLog :
               /\ IsLogin(clientLog[i])
               /\ \A j \in (i+1)..Len(clientLog) :
                      ~IsLogin(clientLog[j]) /\ ~IsLogout(clientLog[j])
    /\ \A i \in DOMAIN clientLog :
           LET e == clientLog[i]
           IN  /\ (e.op \in LoginOps \cup {"logout"} /\ e.result # "none") =>
                      /\ e.now_logged_in = e.was_logged_in
                      /\ e.now_headers = e.was_headers
               /\ (e.op \in AuthenticatedOps /\ ~e.began_logged_in) =>
                      /\ e.result = "CloudChargeNotLoggedInError"
                      /\ e.http = 0
               /\ i = Len(clientLog) => logged_in = e.now_logged_in
    /\ \A o \in inflight : o.op \in AuthenticatedOps => o.began

C18_Witness ==
    /\ Len(clientLog) = 3
    /\ clientLog[1].op = "set_eco_mode_configuration"
    /\ clientLog[1].result = "CloudChargeNotLoggedInError"
    /\ clientLog[1].http = 0
    /\ clientLog[2].op = "login_with_token" /\ clientLog[2].result = "none"
    /\ clientLog[3].op = "logout"
    /\ clientLog[3].result = "CloudChargeRequestError"
    /\ logged_in
    /\ headers = Some(BuildAuthHeaders("u2", "t2"))

\* C19 as stated: whenever a save process sends a further write, the write
\* before it was followed by a re-poll first.
C19_RepollBetweenWrites ==
    \A i \in 1..(Len(sent) - 1) :
        sent[i+1].task = sent[i].task => sent[i].repolled

\* C19 amended: between two writes of one save process there is a re-poll
\* exactly when no edit arrived while the first of them was in flight (the
\* second was then caused by edits that arrived during the re-poll); when an
\* edit arrived during the first write, the second is sent directly after
\* it.  Only successful writes are re-polled, and a process that ends
\* cleanly has re-polled after its last write.
C19_RepollUnlessEditDuringWrite ==
    /\ \A i \in 1..(Len(sent) - 1) :
           sent[i+1].task = sent[i].task =>
               LET during == (sent[i].upto + 1)..sent[i+1].upto
               IN  /\ sent[i].status = "ok"
                   /\ during # {}
                   /\ sent[i].repolled <=>
                          \A c \in during : calls[c].at = "polling"
                   /\ ~sent[i].repolled <=>
                          \E c \in during : calls[c].at = "writing"
    /\ \A i \in DOMAIN sent : sent[i].repolled => sent[i].status = "ok"
    /\ \A t \in Tasks :
           (task[t] = "done_ok" /\ WritesOf(t) # {})
               => sent[LastWriteOf(t)].repolled

C19_Witness ==
    \E t \in Tasks :
        /\ task[t] = "done_ok"
        /\ Cardinality(WritesOf(t)) = 3
        /\ LET f == FirstWriteOf(t)
           IN  /\ ~sent[f].repolled
               /\ calls[sent[f+1].upto].at = "writing"
               /\ sent[f+1].repolled
               /\ calls[sent[f+2].upto].at = "polling"
               /\ sent[f+2].repolled

\* The documents the coordinator can hold as confirmed: the initial one and
\* those of the writes that succeeded.
ConfirmedDocs ==
    {InitialDoc} \cup {sent[i].doc : i \in {j \in DOMAIN sent :
                                               sent[j].status = "ok"}}

\* C20: a save process that ended by a write failure sent nothing after the
\* failed write, neither a write nor a re-poll; an edit that arrived while
\* that write was in flight is part of no write, and no call of the process
\* has returned normally; and
\* every later call edits a new overlay, cloned from a confirmed document,
\* whose writes are built from that clone and the later edits only.
C20_FailureEndsProcess ==
    \A t \in Tasks :
        task[t] = "done_err" =>
            LET f == LastWriteOf(t)
            IN  /\ sent[f].status = "err"
                /\ ~sent[f].repolled
                /\ \A i \in WritesOf(t) \ {f} : sent[i].status = "ok"
                /\ \A c \in CallsOf(t) :
                       /\ calls[c].pc # "returned_ok"
                       /\ \A n \in DOMAIN calls :
                              (n > c /\ calls[n].task # t) =>
                                  /\ calls[n].gen > calls[c].gen
                                  /\ calls[n].base \in ConfirmedDocs
                       /\ c > sent[f].upto =>
                              \A i \in DOMAIN sent :
                                  sent[i].upto >= c =>
                                      /\ sent[i].task # t
                                      /\ calls[sent[i].upto].gen > calls[c].gen
                                      /\ sent[i].doc = BuildRequest(
                                             MergedUpTo(sent[i].upto))

C20_Witness ==
    \E t \in Tasks, c \in DOMAIN calls, i \in DOMAIN sent :
        /\ task[t] = "done_err"
        /\ calls[c].task = t
        /\ calls[c].at = "writing"
        /\ calls[c].m = "hours_5"
        /\ c > sent[LastWriteOf(t)].upto
        /\ Cardinality(WritesOf(t)) = 1
        /\ sent[i].upto > c
        /\ sent[i].doc.hoursToCharge # 5
        /\ sent[i].doc.active
        /\ modified_data # None
        /\ modified_data[1].hoursToCharge # 5

\* C21 as stated: in every reachable state there is an overlay only while
\* the save task the coordinator holds has not ended; when no save task is
\* live -- none was created yet, or the last one has ended -- the overlay is
\* None.
C21_OverlayOnlyWhileSaving ==
    /\ modified_data # None => (save_task # 0 /\ save_task \in LiveTasks)
    /\ LiveTasks = {} => modified_data = None
    /\ \A t \in Tasks :
           (TaskDone(t) /\ save_task \notin LiveTasks) => modified_data = None

\* C22: _is_saving is True only while the save task the coordinator holds is
\* inside its loop (awaiting a write or the re-poll); when no save task is
\* live _is_saving is False and _save_task is None; no task is waiting to
\* start while _is_saving is True, and no task has ended by the early
\* return (a task that ended normally has sent a write).
C22_SavingFlagFollowsTask ==
    /\ is_saving => (save_task # 0 /\ task[save_task] \in {"writing", "polling"})
    /\ LiveTasks = {} => (~is_saving /\ save_task = 0)
    /\ \A t \in Tasks :
           /\ task[t] = "created" => ~is_saving
           /\ task[t] \in {"writing", "polling"} => (is_saving /\ save_task = t)
           /\ task[t] = "done_ok" => WritesOf(t) # {}

C22_Witness ==
    \E t1, t2, t3 \in Tasks :
        /\ task[t1] = "done_ok"
        /\ task[t2] = "done_err"
        /\ task[t3] = "created"
        /\ ~is_saving
        /\ save_task = t3

\* The notifications task t has made.
NotificationsOf(t) == {i \in DOMAIN notified : notified[i].task = t}

\* C23: a save process that has ended cleanly notified its listeners exactly
\* once, and at that notification the overlay was already None and
\* get_data() was the last confirmed document.
C23_ClearedBeforeNotified ==
    \A t \in Tasks :
        task[t] = "done_ok" =>
            /\ Cardinality(NotificationsOf(t)) = 1
            /\ \A i \in NotificationsOf(t) :
                   notified[i].overlay_cleared /\ notified[i].saw_confirmed

C23_Witness ==
    \E t \in Tasks :
        /\ task[t] = "done_ok"
        /\ Cardinality(WritesOf(t)) = 2
        /\ ~last_update_success
        /\ data # Some(sent[LastWriteOf(t)].doc)
        /\ \E i \in NotificationsOf(t) :
               notified[i].overlay_cleared /\ notified[i].saw_confirmed

\* C30 as stated: every save process that has ended, cleanly or by a write
\* failure, has notified its listeners after it dropped the overlay.
C30_EveryDropAnnounced ==
    \A t \in Tasks :
        TaskDone(t) =>
            \E i \in NotificationsOf(t) : notified[i].overlay_cleared

\* C30 amended: a save process that ended cleanly notified its listeners
\* after it dropped the overlay; one that ended by a write failure dropped
\* the overlay and notified nobody -- each of its callers gets the error
\* when it runs again, none returns normally.
C30_OnlyCleanExitAnnounced ==
    \A t \in Tasks :
        /\ task[t] = "done_ok" =>
               \E i \in NotificationsOf(t) : notified[i].overlay_cleared
        /\ task[t] = "done_err" =>
               /\ NotificationsOf(t) = {}
               /\ \A c \in CallsOf(t) : calls[c].pc # "returned_ok"
               /\ save_task \notin LiveTasks => modified_data = None

C30_Witness ==
    \E t1, t2 \in Tasks :
        /\ task[t1] = "done_err"
        /\ NotificationsOf(t1) = {}
        /\ task[t2] = "done_ok"
        /\ NotificationsOf(t2) # {}
        /\ modified_data = None

\* A step that is a periodic poll: self.data or last_update_success changes
\* and no save task moves.
PeriodicPollStep ==
    /\ data' # data \/ last_update_success' # last_update_success
    /\ task' = task

\* C24: the overlay and the last confirmed document are changed by disjoint
\* operations.  A step that makes a set_data call leaves self.data and
\* last_update_success alone; a step that changes them is a poll -- the
\* periodic poll, which leaves the overlay, the flags, the save task, the
\* calls and the writes alone, or the re-poll of the task that is in its
\* re-poll, which leaves the overlay, _is_saving and _save_task alone when
\* the loop goes on; and at any time, whatever writes have failed, the poll
\* can succeed and can fail.
C24_DisjointFrames ==
    /\ [][/\ Len(calls') > Len(calls) =>
                 (data' = data /\ last_update_success' = last_update_success)
          /\ PeriodicPollStep =>
                 UNCHANGED <<modified_data, has_changes, is_saving, save_task,
                             calls, sent, remote, notified>>
          /\ (data' # data \/ last_update_success' # last_update_success) =>
                 \/ PeriodicPollStep
                 \/ \E t \in Tasks :
                        /\ task[t] = "polling"
                        /\ task'[t] \in {"writing", "done_ok"}
                        /\ save_task = t
                        /\ task'[t] = "writing" =>
                               UNCHANGED <<modified_data, is_saving,
                                           save_task>>
         ]_vars
    /\ [](ENABLED Poll(TRUE) /\ ENABLED Poll(FALSE))

C24_Witness ==
    \E c \in DOMAIN calls :
        /\ calls[c].pc = "returned_err"
        /\ calls[c].base = InitialDoc
        /\ remote \in {ServiceConfig(call) : call \in ServiceCalls}
        /\ data = Some(remote)
        /\ last_update_success
        /\ modified_data = None

\* C26 as stated: a poll of the operational data that ended with an error --
\* from its fetch or from the start-live-consumption request -- left
\* is_charging and the interval as they were before it, so a later poll
\* that reads 'Charging' sends the start-live-consumption request again.
C26_FailedCycleChangesNothing ==
    \A i \in DOMAIN opLog :
        opLog[i].raised \notin {"none", "pending"} =>
            /\ opLog[i].now_charging = opLog[i].was_charging
            /\ opLog[i].now_interval = opLog[i].was_interval
            /\ (opLog[i].started /\ i < Len(opLog)
                    /\ opLog[i+1].state = Some("Charging")) =>
                   opLog[i+1].started

\* C27 as stated: when a save process ends with every write of it accepted
\* (the server stores what is written and nobody else changes it), get_data()
\* is from then on the document that was written, also when the re-poll
\* after the last write failed.
C27_WrittenValuesStayVisible ==
    [][\A t \in Tasks :
          (task[t] = "polling" /\ task'[t] = "done_ok")
          => /\ \A i \in WritesOf(t) : sent'[i].status = "ok"
             /\ remote' = sent'[LastWriteOf(t)].doc
             /\ GetData' = Some(sent'[LastWriteOf(t)].doc)]_vars

\* C28 as stated: the step in which a save task is cancelled while it awaits
\* a write or the re-poll leaves the coordinator clean -- no overlay, no
\* pending change, _is_saving False, no save task -- and get_data() is the
\* last confirmed document.
C28_CancelLeavesClean ==
    [][\A t \in Tasks :
          (task[t] \in {"writing", "polling"} /\ task'[t] = "done_cancelled")
          => /\ modified_data' = None
             /\ ~has_changes'
             /\ ~is_saving'
             /\ save_task' = 0
             /\ GetData' = data']_vars

\* The coordinator at rest: no overlay, no save task, not saving, and every
\* save task that was created has ended.
AtRest ==
    /\ modified_data = None
    /\ save_task = 0
    /\ ~is_saving
    /\ LiveTasks = {}

\* C29 as stated: when every network call completes and finitely many
\* set_data calls are made, every set_data call ends (normally or with the
\* write's error; a caller that was cancelled has ended too), every save
\* task ends, and the coordinator comes to rest for good.
C29_EverySaveTerminates ==
    /\ \A c \in 1..MaxCalls :
           (c \in DOMAIN calls) ~>
               (c \in DOMAIN calls
                    /\ calls[c].pc \in {"returned_ok", "returned_err",
                                        "cancelled"})
    /\ \A t \in Tasks : (task[t] # "unborn") ~> TaskDone(t)
    /\ <>[]AtRest

\* The presses of the log that have ended.
EndedPresses == {i \in DOMAIN pressLog : pressLog[i].raised # "pending"}

\* C25: while a press of a start/stop button is running is_processing is
\* True and available is False, and available was False at every point of a
\* press, whatever the coordinator reported meanwhile; a press that has
\* ended slept the button's configured delay and then called the
\* coordinator's refresh, whatever on_press did (only a press cancelled in
\* that sleep ended, with CancelledError, without a refresh) -- unless the
\* refresh itself raised, the coordinator polled for it; the press ended
\* with is_processing False and raised on_press's, the sleep's or the
\* refresh's exception, or nothing; and a button at rest is not processing.
C25_PressIsProcessingUntilDone ==
    /\ \A b \in Buttons :
           /\ btn[b].pc # "idle" =>
                  /\ btn[b].is_processing
                  /\ ~Available(b)
                  /\ btn[b].press \in DOMAIN pressLog
                  /\ pressLog[btn[b].press].button = b
                  /\ btn[b].press \notin EndedPresses
           /\ btn[b].pc = "idle" => ~btn[b].is_processing
    /\ \A i \in DOMAIN pressLog : ~pressLog[i].shown_available
    /\ \A i \in EndedPresses :
           LET e == pressLog[i]
           IN  /\ e.on_press \in OnPressResults
               /\ e.refresh \in RefreshResults \cup {"none"}
               /\ e.refresh \in RefreshResults =>
                      e.slept = RefreshCoordinatorWait(e.button)
               /\ e.refresh = "none" =>
                      e.slept = 0 /\ e.raised = "CancelledError"
               /\ ~e.processing_at_end
               /\ e.raised = PressRaises(e.on_press, e.refresh)
               /\ e.refresh \in {"ok", "failed"} =>
                      \E k \in DOMAIN opLog :
                          /\ opLog[k].who = e.button
                          /\ e.refresh = "ok" <=> opLog[k].raised = "none"

C25_Witness ==
    \E i \in EndedPresses, k \in DOMAIN opLog :
        /\ pressLog[i].button = "start_charging"
        /\ pressLog[i].on_press = "ValueError"
        /\ pressLog[i].slept = 5
        /\ pressLog[i].refresh = "ok"
        /\ pressLog[i].raised = "ValueError"
        /\ opLog[k].who = "start_charging" /\ opLog[k].started
        /\ TimerPolls = MaxButtonPolls
        /\ is_charging
        /\ update_interval = ActiveInterval
        /\ ~btn["start_charging"].is_processing
        /\ ~btn["start_charging"].is_available
        /\ btn["stop_charging"].is_available

=============================================================================
